---------------------------- MODULE Spec2Model ----------------------------
(***************************************************************************)
(* Model of the generation engine of universal-loot-generator:             *)
(*   loot_generator/utils.py  generate_loot, resolve_material_placeholders *)
(*                                                                         *)
(* Text is a sequence of one-character strings.  A material modifier is a  *)
(* number of tenths (12 stands for 1.2); the float accumulator `modifiers` *)
(* is the pair (product of the tenths, number of factors).                 *)
(***************************************************************************)
EXTENDS Integers, Sequences, FiniteSets, TLC

(***************************************************************************)
(* Bounds of the model.                                                    *)
(***************************************************************************)
MaxPoints == 3
MaxLoot == 4
MaxItems == 2
MaxParts == 2

(***************************************************************************)
(* Optional[...] arguments: None, or a one-element tuple.                  *)
(***************************************************************************)
None == << >>
Some(x) == << x >>

(***************************************************************************)
(* Characters.                                                             *)
(***************************************************************************)
Letters == {"M", "m", "W", "w", "O", "o", "S", "R", "B", "I", "T", "K"}

\* the character class [A-Za-z/] of the pattern
ClassChars == Letters \cup {"/"}

\* str.strip() removes whitespace
Whitespace == {" "}

\* str.lower(), one character
LowerChar(c) ==
  CASE c = "M" -> "m"
    [] c = "W" -> "w"
    [] c = "O" -> "o"
    [] c = "S" -> "s"
    [] c = "R" -> "r"
    [] c = "B" -> "b"
    [] c = "I" -> "i"
    [] c = "T" -> "t"
    [] c = "K" -> "k"
    [] OTHER -> c

\* str.lower()
Lower(s) == [i \in 1..Len(s) |-> LowerChar(s[i])]

RECURSIVE LStrip(_)
LStrip(s) ==
  IF s # << >> /\ Head(s) \in Whitespace THEN LStrip(Tail(s)) ELSE s

RECURSIVE RStrip(_)
RStrip(s) ==
  IF s # << >> /\ s[Len(s)] \in Whitespace
  THEN RStrip(SubSeq(s, 1, Len(s) - 1))
  ELSE s

\* a strip that forgets the trailing whitespace
StripLeft(s) == LStrip(s)

\* str.strip()
Strip(s) == RStrip(LStrip(s))

\* str.split("/"): the pieces between the slashes, empty pieces included
RECURSIVE Split(_, _)
Split(s, cur) ==
  IF s = << >> THEN << cur >>
  ELSE IF Head(s) = "/" THEN << cur >> \o Split(Tail(s), << >>)
  ELSE Split(Tail(s), Append(cur, Head(s)))

Range(s) == {s[i] : i \in 1..Len(s)}

(***************************************************************************)
(* Records.                                                                *)
(***************************************************************************)
LootItem(name, rarity, description, point_value, tags) ==
  [name |-> name, rarity |-> rarity, description |-> description,
   point_value |-> point_value, tags |-> tags]

Material(name, modifier, type) ==
  [name |-> name, modifier |-> modifier, type |-> type]

\* denominator of the modifiers: 12 is 1.2
ModDen == 10

RECURSIVE Pow(_, _)
Pow(b, n) == IF n = 0 THEN 1 ELSE b * Pow(b, n - 1)

\* round(n / d), d > 0, ties to the even neighbour as Python's round does
Round(n, d) ==
  LET q == n \div d
      r == n % d
  IN  IF 2 * r < d THEN q
      ELSE IF 2 * r > d THEN q + 1
      ELSE IF q % 2 = 0 THEN q ELSE q + 1

(***************************************************************************)
(* pattern = \[([A-Za-z/]+?)(?:(/o))?\]                                    *)
(***************************************************************************)
\* name[from..] starts with the text t
StartsAt(name, from, t) ==
  /\ from + Len(t) - 1 <= Len(name)
  /\ \A j \in 1..Len(t) : name[from + j - 1] = t[j]

\* the lengths k of group 1 with which the pattern matches at position i
GroupLens(name, i) ==
  {k \in 1..Len(name) :
     /\ i + k <= Len(name)
     /\ \A j \in 1..k : name[i + j] \in ClassChars
     /\ \/ StartsAt(name, i + k + 1, <<"/", "o", "]">>)
        \/ StartsAt(name, i + k + 1, <<"]">>)}

\* the pattern matches at position i
MatchesAt(name, i) ==
  /\ i <= Len(name)
  /\ name[i] = "["
  /\ GroupLens(name, i) # {}

\* the match at position i: group 1 is lazy and takes the least length, the
\* optional group is greedy and takes "/o" when it is there
MatchAt(name, i) ==
  LET k == CHOOSE k \in GroupLens(name, i) :
             \A k2 \in GroupLens(name, i) : k <= k2
      opt == StartsAt(name, i + k + 1, <<"/", "o", "]">>)
  IN  [start |-> i,
       end |-> IF opt THEN i + k + 3 ELSE i + k + 1,
       types_str |-> SubSeq(name, i + 1, i + k),
       optional |-> opt]

\* pattern.search(name) is not None
HasToken(name) == \E i \in 1..Len(name) : MatchesAt(name, i)

(***************************************************************************)
(* resolve_material_placeholders                                           *)
(***************************************************************************)
\* types = [t.strip() for t in types_str.split("/") if t.strip()]
Types(types_str) ==
  LET pieces == Split(types_str, << >>)
      stripped == [j \in 1..Len(pieces) |-> Strip(pieces[j])]
  IN  SelectSeq(stripped, LAMBDA t : t # << >>)

\* a comparison that forgets to lower the material's type
TypeMatchesCaseSensitive(mat, types) ==
  mat.type \in {Lower(t) : t \in Range(types)}

\* m.type.lower() in {t.lower() for t in types}
TypeMatches(mat, types) == Lower(mat.type) \in {Lower(t) : t \in Range(types)}

\* options = [m for m in materials if ...]
Options(materials, types) ==
  SelectSeq(materials, LAMBDA mat : TypeMatches(mat, types))

\* random.random() < 0.5 comes out either way
CoinFlips == {TRUE, FALSE}

\* a repl that chooses the material and multiplies the accumulator before
\* it flips the coin
ReplWithLateFlip(match, materials, flip) ==
  LET types == Types(match.types_str)
      options == Options(materials, types)
      dec(dropped, mat) ==
        [start |-> match.start, end |-> match.end, types |-> types,
         optional |-> match.optional, dropped |-> dropped, mat |-> mat]
  IN  IF options = << >>
      THEN {[text |-> << >>, factor |-> None,
             dec |-> dec(match.optional /\ flip, None)]}
      ELSE IF match.optional /\ flip
      THEN {[text |-> << >>, factor |-> Some(mat.modifier),
             dec |-> dec(TRUE, None)] : mat \in Range(options)}
      ELSE {[text |-> mat.name, factor |-> Some(mat.modifier),
             dec |-> dec(FALSE, Some(mat))] : mat \in Range(options)}

\* the outcomes of repl(match) when random.random() < 0.5 is `flip`: the
\* replacement text, the factor the accumulator is multiplied by (None: it
\* is left alone), and a record of what was decided for the token
ReplWith(match, materials, flip) ==
  LET types == Types(match.types_str)
      options == Options(materials, types)
      dec(dropped, mat) ==
        [start |-> match.start, end |-> match.end, types |-> types,
         optional |-> match.optional, dropped |-> dropped, mat |-> mat]
  IN  IF match.optional /\ flip
      THEN {[text |-> << >>, factor |-> None, dec |-> dec(TRUE, None)]}
      ELSE IF options = << >>
      THEN {[text |-> << >>, factor |-> None, dec |-> dec(FALSE, None)]}
      ELSE {[text |-> mat.name, factor |-> Some(mat.modifier),
             dec |-> dec(FALSE, Some(mat))] : mat \in Range(options)}

Repl(match, materials) ==
  UNION {ReplWith(match, materials, flip) : flip \in CoinFlips}

\* modifiers *= mat.modifier, on the pair (product of tenths, factors)
Accumulate(modifiers, factor) ==
  IF factor = None THEN modifiers
  ELSE [num |-> modifiers.num * factor[1], cnt |-> modifiers.cnt + 1]

\* pattern.sub(repl, name) from position i on: the matches are found left
\* to right and do not overlap, the text between them is copied
RECURSIVE Sub(_, _, _, _, _, _)
Sub(name, i, out, modifiers, trace, materials) ==
  IF i > Len(name)
  THEN {[new_name |-> out, modifiers |-> modifiers, trace |-> trace]}
  ELSE IF MatchesAt(name, i)
  THEN LET match == MatchAt(name, i)
       IN  UNION {Sub(name, match.end + 1, out \o r.text,
                      Accumulate(modifiers, r.factor),
                      Append(trace, r.dec), materials)
                  : r \in Repl(match, materials)}
  ELSE Sub(name, i + 1, Append(out, name[i]), modifiers, trace, materials)

\* modifiers = 1.0
InitialModifiers == [num |-> 1, cnt |-> 0]

\* a conversion that truncates: int(value * modifiers)
NewValueTruncated(value, modifiers) ==
  (value * modifiers.num) \div Pow(ModDen, modifiers.cnt)

\* new_value = int(round(value * modifiers))
NewValue(value, modifiers) ==
  Round(value * modifiers.num, Pow(ModDen, modifiers.cnt))

\* the possible results of resolve_material_placeholders(name, value,
\* materials): the returned pair, with the record of the tokens' decisions
resolve_material_placeholders(name, value, materials) ==
  {[name |-> Strip(s.new_name),
    value |-> NewValue(value, s.modifiers),
    trace |-> s.trace]
   : s \in Sub(name, 1, << >>, InitialModifiers, << >>, materials)}

(***************************************************************************)
(* generate_loot: filtering and validation                                 *)
(***************************************************************************)
\* `not include_tags`: None and the empty list are both false
TagsGiven(tag_filter) == tag_filter # None /\ tag_filter[1] # {}

\* a filter that forgets max_rarity
PassesFiltersNoMax(item, inc, exc, min_r, max_r) ==
  /\ (~TagsGiven(inc) \/ inc[1] \cap item.tags # {})
  /\ (~TagsGiven(exc) \/ exc[1] \cap item.tags = {})
  /\ (min_r = None \/ item.rarity >= min_r[1])

\* the condition of the comprehension that builds filtered_items
PassesFilters(item, inc, exc, min_r, max_r) ==
  /\ (~TagsGiven(inc) \/ inc[1] \cap item.tags # {})
  /\ (~TagsGiven(exc) \/ exc[1] \cap item.tags = {})
  /\ (min_r = None \/ item.rarity >= min_r[1])
  /\ (max_r = None \/ item.rarity <= max_r[1])

FilterItems(its, inc, exc, min_r, max_r) ==
  SelectSeq(its, LAMBDA item : PassesFilters(item, inc, exc, min_r, max_r))

Names(its) == [j \in 1..Len(its) |-> its[j].name]

ValueError(msg, names) == [type |-> "ValueError", msg |-> msg, names |-> names]

PointsMessage == "points must be positive"
RarityMessage == "All filtered items have non-positive rarity"
ValueMessage == "All filtered items have non-positive point value"

\* a check that lets a budget of zero through
PointsRejectedStrict(p) == p < 0

\* if points <= 0
PointsRejected(p) == p <= 0

\* a validation that raises as soon as one item has a non-positive rarity
ValidateRarityAnyInvalid(filtered) ==
  LET invalid_items == SelectSeq(filtered, LAMBDA item : item.rarity <= 0)
      kept == SelectSeq(filtered, LAMBDA item : item.rarity > 0)
  IN  IF invalid_items # << >>
      THEN [items |-> kept,
            error |-> Some(ValueError(RarityMessage, Names(invalid_items)))]
      ELSE [items |-> filtered, error |-> None]

\* the rarity validation: the items kept, and the error raised if any
ValidateRarity(filtered) ==
  LET invalid_items == SelectSeq(filtered, LAMBDA item : item.rarity <= 0)
      kept == SelectSeq(filtered, LAMBDA item : item.rarity > 0)
  IN  IF invalid_items # << >>
      THEN IF kept = << >>
           THEN [items |-> kept,
                 error |-> Some(ValueError(RarityMessage, Names(invalid_items)))]
           ELSE [items |-> kept, error |-> None]
      ELSE [items |-> filtered, error |-> None]

\* a validation that raises whenever no item is left
ValidatePointValueEmptyRaises(filtered) ==
  LET invalid_value_items ==
        SelectSeq(filtered, LAMBDA item : item.point_value <= 0)
      kept == SelectSeq(filtered, LAMBDA item : item.point_value > 0)
  IN  IF kept = << >>
      THEN [items |-> kept,
            error |-> Some(ValueError(ValueMessage,
                                      Names(invalid_value_items)))]
      ELSE [items |-> kept, error |-> None]

\* the point value validation
ValidatePointValue(filtered) ==
  LET invalid_value_items ==
        SelectSeq(filtered, LAMBDA item : item.point_value <= 0)
      kept == SelectSeq(filtered, LAMBDA item : item.point_value > 0)
  IN  IF invalid_value_items # << >>
      THEN IF kept = << >>
           THEN [items |-> kept,
                 error |-> Some(ValueError(ValueMessage,
                                           Names(invalid_value_items)))]
           ELSE [items |-> kept, error |-> None]
      ELSE [items |-> filtered, error |-> None]

\* a restriction that leaves out the item that fits exactly
AvailableItemsStrict(filtered, rem) ==
  SelectSeq(filtered, LAMBDA i : i.point_value < rem)

\* available_items = [i for i in filtered_items if i.point_value <= remaining]
AvailableItems(filtered, rem) ==
  SelectSeq(filtered, LAMBDA i : i.point_value <= rem)

\* `if materials`: None and the empty list are both false
MaterialsGiven(mats) == mats # None /\ mats[1] # << >>

\* what the loop body appends for the drawn item i: the item itself, or one
\* of its rewritings by the resolver (with the record of that call)
Rewritings(i, mats, last_trace) ==
  IF MaterialsGiven(mats)
  THEN {[item |-> LootItem(r.name, i.rarity, i.description, r.value, i.tags),
         trace |-> r.trace]
        : r \in resolve_material_placeholders(i.name, i.point_value, mats[1])}
  ELSE {[item |-> i, trace |-> last_trace]}

(***************************************************************************)
(* The inputs.                                                             *)
(***************************************************************************)
Iron == Material(<<"I">>, 12, <<"M">>)
Tin == Material(<<"T">>, 4, <<"m">>)
Oak == Material(<<"O", "K">>, 15, <<"W">>)

MaterialPool == << Iron, Tin, Oak >>

ItemPool ==
  << LootItem(<<"S">>, 2, "plain", 2, {"weapon"}),
     LootItem(<<"[", "M", "]", " ", "S">>, 1, "metal", 1, {"weapon", "magic"}),
     LootItem(<<"R", " ", "[", "W", "/", "o", "]">>, 1, "ring", 1, {"magic"}),
     LootItem(<<"B">>, 0, "no rarity", 1, {"weapon"}),
     LootItem(<<"B", "B">>, 1, "no value", 0, {}),
     LootItem(<<"B", "S">>, 0 - 1, "neither", 0 - 5, {"weapon"}) >>

\* the elements of pool at the indices in S, in the order of the pool
RECURSIVE SubPool(_, _, _)
SubPool(pool, S, j) ==
  IF j > Len(pool) THEN << >>
  ELSE IF j \in S THEN << pool[j] >> \o SubPool(pool, S, j + 1)
  ELSE SubPool(pool, S, j + 1)

Catalogs ==
  {SubPool(ItemPool, S, 1) :
     S \in {T \in SUBSET (1..Len(ItemPool)) : Cardinality(T) <= MaxItems}}

MaterialLists == {SubPool(MaterialPool, S, 1) : S \in SUBSET (1..Len(MaterialPool))}

IncludeChoices == {None, Some({}), Some({"weapon"})}
ExcludeChoices == {None, Some({"magic"})}
MinRarityChoices == {None, Some(1), Some(2)}
MaxRarityChoices == {None, Some(1)}
MaterialChoices ==
  {None, Some(<< >>), Some(<< Oak >>), Some(<< Tin >>), Some(MaterialPool)}

NameParts ==
  { <<" ">>, <<"S">>, <<"R", " ">>, <<" ", "S">>, <<"[">>, <<"]">>,
    <<"[", "M", "]">>, <<"[", "W", "/", "o", "]">>,
    <<"[", "m", "/", "W", "]">>, <<"[", "M", "/", "W", "/", "o", "]">>,
    <<"[", "/", "o", "]">> }

RECURSIVE NamesOf(_)
NamesOf(n) ==
  IF n = 0 THEN { << >> }
  ELSE LET shorter == NamesOf(n - 1)
       IN  shorter \cup {s \o part : s \in shorter, part \in NameParts}

ResolveNames == NamesOf(MaxParts)
ResolveValues == {0, 1, 2, 3, 10}

(***************************************************************************)
(* The state: one call of generate_loot or of                              *)
(* resolve_material_placeholders.                                          *)
(***************************************************************************)
VARIABLES
  fn,              \* the function called
  items, points, include_tags, exclude_tags, min_rarity, max_rarity,
  materials,       \* the arguments of generate_loot (materials: of both)
  name, value,     \* the arguments of resolve_material_placeholders
  pc,              \* "start", "loop", "done" (returned) or "raised"
  filtered_items, loot, total_points, remaining,
  drawn,           \* the candidate drawn in the last iteration, if any
  error,           \* the exception raised, if any
  result,          \* the pair returned by resolve_material_placeholders
  trace            \* what the last call of the resolver decided for each token

args == << fn, items, points, include_tags, exclude_tags, min_rarity,
           max_rarity, materials, name, value >>
locals == << filtered_items, loot, total_points, remaining, drawn >>
vars == << args, pc, locals, error, result, trace >>

InitLocals ==
  /\ pc = "start"
  /\ filtered_items = << >>
  /\ loot = << >>
  /\ total_points = 0
  /\ remaining = 0
  /\ drawn = None
  /\ error = None
  /\ result = None
  /\ trace = << >>

InitGenerate ==
  /\ fn = "generate_loot"
  /\ items \in Catalogs
  /\ points \in (0 - 1)..MaxPoints
  /\ include_tags \in IncludeChoices
  /\ exclude_tags \in ExcludeChoices
  /\ min_rarity \in MinRarityChoices
  /\ max_rarity \in MaxRarityChoices
  /\ materials \in MaterialChoices
  /\ name = << >>
  /\ value = 0

InitResolve ==
  /\ fn = "resolve_material_placeholders"
  /\ name \in ResolveNames
  /\ value \in ResolveValues
  /\ materials \in {Some(m) : m \in MaterialLists}
  /\ items = << >>
  /\ points = 0
  /\ include_tags = None
  /\ exclude_tags = None
  /\ min_rarity = None
  /\ max_rarity = None

Init == (InitGenerate \/ InitResolve) /\ InitLocals

(***************************************************************************)
(* generate_loot                                                           *)
(***************************************************************************)
\* points <= 0: raise ValueError("points must be positive")
RaisePoints ==
  /\ pc = "start" /\ fn = "generate_loot"
  /\ PointsRejected(points)
  /\ pc' = "raised"
  /\ error' = Some(ValueError(PointsMessage, << >>))
  /\ UNCHANGED << args, locals, result, trace >>

\* the filtered and validated candidates, or the error of the validation
Candidates ==
  LET filtered == FilterItems(items, include_tags, exclude_tags,
                              min_rarity, max_rarity)
      byRarity == ValidateRarity(filtered)
  IN  IF byRarity.error # None THEN byRarity
      ELSE ValidatePointValue(byRarity.items)

\* a validation raises
RaiseCatalog ==
  /\ pc = "start" /\ fn = "generate_loot"
  /\ ~PointsRejected(points)
  /\ Candidates.error # None
  /\ pc' = "raised"
  /\ error' = Candidates.error
  /\ filtered_items' = Candidates.items
  /\ UNCHANGED << args, loot, total_points, remaining, drawn, result, trace >>

\* no candidate is left: return the empty loot
ReturnEmpty ==
  /\ pc = "start" /\ fn = "generate_loot"
  /\ ~PointsRejected(points)
  /\ Candidates.error = None
  /\ Candidates.items = << >>
  /\ pc' = "done"
  /\ filtered_items' = Candidates.items
  /\ UNCHANGED << args, loot, total_points, remaining, drawn, error, result,
                  trace >>

\* candidates are left: enter the loop
EnterLoop ==
  /\ pc = "start" /\ fn = "generate_loot"
  /\ ~PointsRejected(points)
  /\ Candidates.error = None
  /\ Candidates.items # << >>
  /\ pc' = "loop"
  /\ filtered_items' = Candidates.items
  /\ UNCHANGED << args, loot, total_points, remaining, drawn, error, result,
                  trace >>

\* one iteration of the loop: random.choices gives every available item a
\* positive weight 1 / rarity, so any of them may be drawn
Iterate ==
  /\ pc = "loop"
  /\ total_points < points
  /\ Len(loot) < MaxLoot
  /\ LET rem == points - total_points
         available_items == AvailableItems(filtered_items, rem)
     IN  /\ available_items # << >>
         /\ \E i \in Range(available_items) :
              \E rw \in Rewritings(i, materials, trace) :
                /\ remaining' = rem
                /\ drawn' = Some(i)
                /\ loot' = Append(loot, rw.item)
                /\ total_points' = total_points + rw.item.point_value
                /\ trace' = rw.trace
  /\ UNCHANGED << args, pc, filtered_items, error, result >>

\* the loop ends: the budget is reached, or no item is available
Return ==
  /\ pc = "loop"
  /\ \/ ~(total_points < points)
     \/ AvailableItems(filtered_items, points - total_points) = << >>
  /\ pc' = "done"
  /\ UNCHANGED << args, locals, error, result, trace >>

(***************************************************************************)
(* resolve_material_placeholders, called on its own                        *)
(***************************************************************************)
Resolve ==
  /\ pc = "start" /\ fn = "resolve_material_placeholders"
  /\ \E r \in resolve_material_placeholders(name, value, materials[1]) :
       /\ result' = Some(<< r.name, r.value >>)
       /\ trace' = r.trace
  /\ pc' = "done"
  /\ UNCHANGED << args, locals, error >>

Next ==
  \/ RaisePoints
  \/ RaiseCatalog
  \/ ReturnEmpty
  \/ EnterLoop
  \/ Iterate
  \/ Return
  \/ Resolve

Spec == Init /\ [][Next]_vars

(***************************************************************************)
(* Vocabulary of the properties.                                           *)
(***************************************************************************)
Generating == fn = "generate_loot"
Resolving == fn = "resolve_material_placeholders"

RECURSIVE SumPoints(_)
SumPoints(its) ==
  IF its = << >> THEN 0 ELSE Head(its).point_value + SumPoints(Tail(its))

\* the errors of the specification
IsInvalidArgument(e) == e # None /\ e[1].msg = PointsMessage
IsInvalidCatalog(e) == e # None /\ e[1].msg \in {RarityMessage, ValueMessage}

\* the items of the catalog that pass the filters of the call
Filtered == FilterItems(items, include_tags, exclude_tags, min_rarity, max_rarity)

Valid(item) == item.rarity > 0 /\ item.point_value > 0

\* the resolver has been called, and this is its last call
ResolverCalled ==
  \/ Resolving /\ pc = "done"
  \/ Generating /\ MaterialsGiven(materials) /\ loot # << >>
CallName == IF Resolving THEN name ELSE drawn[1].name
CallValue == IF Resolving THEN value ELSE drawn[1].point_value
ReturnedName == IF Resolving THEN result[1][1] ELSE loot[Len(loot)].name
ReturnedValue == IF Resolving THEN result[1][2] ELSE loot[Len(loot)].point_value

\* r is s without its leading and trailing whitespace
IsTrimOf(r, s) ==
  /\ r = << >> \/ (r[1] \notin Whitespace /\ r[Len(r)] \notin Whitespace)
  /\ \E a \in 0..Len(s) :
       /\ a + Len(r) <= Len(s)
       /\ r = SubSeq(s, a + 1, a + Len(r))
       /\ \A j \in 1..Len(s) :
            (j <= a \/ j > a + Len(r)) => s[j] \in Whitespace

\* the text a token was replaced by, according to the record of the call
TextOf(d) == IF d.mat = None THEN << >> ELSE d.mat[1].name

\* the name with every token replaced by its text
RECURSIVE Rebuilt(_, _, _, _)
Rebuilt(s, tr, j, from) ==
  IF j > Len(tr) THEN SubSeq(s, from, Len(s))
  ELSE SubSeq(s, from, tr[j].start - 1) \o TextOf(tr[j])
         \o Rebuilt(s, tr, j + 1, tr[j].end + 1)

\* the materials of the call whose type is, up to case, a label of the token
Matching(d) ==
  {mat \in Range(materials[1]) :
     \E label \in Range(d.types) : Lower(mat.type) = Lower(label)}

\* the product of the modifiers of the substituted materials, in tenths
RECURSIVE ProductOf(_)
ProductOf(tr) ==
  IF tr = << >> THEN 1
  ELSE (IF Head(tr).mat = None THEN 1 ELSE Head(tr).mat[1].modifier)
         * ProductOf(Tail(tr))

Substituted(tr) == Len(SelectSeq(tr, LAMBDA d : d.mat # None))

Abs(x) == IF x < 0 THEN 0 - x ELSE x

(***************************************************************************)
(* C1: when generate_loot returns, the point values of the returned items  *)
(* (their resolved costs) sum to at most points.                           *)
(***************************************************************************)
C1_BudgetNeverExceeded ==
  (Generating /\ pc = "done") => SumPoints(loot) <= points

(***************************************************************************)
(* C2: with points > 0 and modifiers all > 0, every iteration of the loop  *)
(* that does not end it strictly decreases the remaining budget, and the   *)
(* loop runs at most points iterations.                                    *)
(***************************************************************************)
ModifiersPositive ==
  materials = None \/ \A mat \in Range(materials[1]) : mat.modifier > 0

C2_IterationDecreasesBudget ==
  [][(Generating /\ points > 0 /\ ModifiersPositive /\ pc = "loop"
        /\ pc' = "loop")
       => /\ points - total_points' < points - total_points
          /\ Len(loot') <= points]_vars

(***************************************************************************)
(* C3: generate_loot with points <= 0 raises ValueError("points must be    *)
(* positive") whatever the catalog and the filters; nothing is drawn and   *)
(* nothing is returned.                                                    *)
(***************************************************************************)
C3_NonPositivePointsRejected ==
  (Generating /\ points <= 0 /\ pc # "start")
    => /\ pc = "raised"
       /\ IsInvalidArgument(error)
       /\ loot = << >>
       /\ drawn = None

\* rejected with a catalog that the validation would reject as well
C3_Witness ==
  /\ Generating /\ points <= 0 /\ pc = "raised"
  /\ Filtered # << >>
  /\ \A item \in Range(Filtered) : ~Valid(item)

(***************************************************************************)
(* C4: with points > 0, generate_loot raises the catalog error exactly     *)
(* when some item passes the filters and every item that passes them has   *)
(* rarity <= 0 or point_value <= 0.                                        *)
(***************************************************************************)
C4_InvalidCatalogExactly ==
  (Generating /\ points > 0 /\ pc # "start")
    => (IsInvalidCatalog(error)
          <=> (Filtered # << >> /\ \A item \in Range(Filtered) : ~Valid(item)))

\* raised for a mix of items: one of rarity <= 0 only, one of value <= 0 only
C4_Witness ==
  /\ Generating /\ points > 0 /\ pc = "raised"
  /\ IsInvalidCatalog(error)
  /\ \E item \in Range(Filtered) : item.rarity <= 0 /\ item.point_value > 0
  /\ \E item \in Range(Filtered) : item.rarity > 0 /\ item.point_value <= 0

(***************************************************************************)
(* C5: every item of the loot satisfies the filters that were given: its   *)
(* tags meet include_tags, do not meet exclude_tags, and its rarity is     *)
(* within the bounds; a rewritten item keeps the tags and the rarity of    *)
(* the item drawn.                                                         *)
(***************************************************************************)
KeepsTagsAndRarity ==
  loot # << >> =>
    /\ loot[Len(loot)].tags = drawn[1].tags
    /\ loot[Len(loot)].rarity = drawn[1].rarity

\* as claimed: include_tags binds whenever it is given, the empty list too
C5_LootSatisfiesGivenFilters ==
  (Generating /\ points > 0)
    => /\ \A item \in Range(loot) :
            /\ include_tags # None => include_tags[1] \cap item.tags # {}
            /\ exclude_tags # None => exclude_tags[1] \cap item.tags = {}
            /\ min_rarity # None => min_rarity[1] <= item.rarity
            /\ max_rarity # None => item.rarity <= max_rarity[1]
       /\ KeepsTagsAndRarity

\* as amended: include_tags binds when it is given and not empty
C5_LootSatisfiesNonEmptyFilters ==
  (Generating /\ points > 0)
    => /\ \A item \in Range(loot) :
            /\ (include_tags # None /\ include_tags[1] # {})
                 => include_tags[1] \cap item.tags # {}
            /\ exclude_tags # None => exclude_tags[1] \cap item.tags = {}
            /\ min_rarity # None => min_rarity[1] <= item.rarity
            /\ max_rarity # None => item.rarity <= max_rarity[1]
       /\ KeepsTagsAndRarity

\* a rewritten item in the loot, drawn from a catalog of which the filters
\* (tags and rarity) reject an item
C5_Witness ==
  /\ Generating /\ points > 0 /\ pc = "done"
  /\ include_tags # None /\ include_tags[1] # {}
  /\ max_rarity # None
  /\ Len(Filtered) < Len(items)
  /\ loot # << >>
  /\ MaterialsGiven(materials)
  /\ loot[Len(loot)].name # drawn[1].name

(***************************************************************************)
(* C6: with points > 0, when no item of the catalog passes the filters     *)
(* (the catalog may be empty), generate_loot returns the empty loot and    *)
(* raises nothing.                                                         *)
(***************************************************************************)
C6_NothingFilteredReturnsEmpty ==
  (Generating /\ points > 0 /\ pc # "start" /\ Filtered = << >>)
    => (pc = "done" /\ loot = << >> /\ error = None)

\* a catalog of which every item is filtered out
C6_Witness ==
  /\ Generating /\ points > 0 /\ pc = "done"
  /\ items # << >> /\ Filtered = << >>
  /\ loot = << >>

(***************************************************************************)
(* C7: for a name without a token, the resolver returns the name and the   *)
(* value.                                                                  *)
(***************************************************************************)
\* as claimed: the name character for character
C7_NoTokenNameUnchanged ==
  (Resolving /\ pc = "done" /\ ~HasToken(name))
    => result = Some(<< name, value >>)

\* as amended: the name without its leading and trailing whitespace
C7_NoTokenNameTrimmed ==
  (Resolving /\ pc = "done" /\ ~HasToken(name))
    => /\ IsTrimOf(result[1][1], name)
       /\ result[1][2] = value

\* a name without a token, with brackets and surrounding whitespace in it
C7_Witness ==
  /\ Resolving /\ pc = "done" /\ ~HasToken(name)
  /\ "[" \in Range(name)
  /\ name # << >> /\ name[Len(name)] \in Whitespace
  /\ result[1][1] # name
  /\ materials[1] # << >>

(***************************************************************************)
(* C8: a token that is not dropped is replaced by the name of a material   *)
(* whose type is, up to case, one of its labels, whenever there is one; it *)
(* is replaced by empty text, and no modifier is applied, exactly when no  *)
(* material matches a label.                                               *)
(***************************************************************************)
C8_SubstitutesMatchingMaterial ==
  ResolverCalled
    => /\ \A j \in 1..Len(trace) :
            ~trace[j].dropped
              => /\ Matching(trace[j]) # {}
                   => (trace[j].mat # None
                         /\ trace[j].mat[1] \in Matching(trace[j]))
                 /\ Matching(trace[j]) = {} <=> trace[j].mat = None
       /\ IsTrimOf(ReturnedName, Rebuilt(CallName, trace, 1, 1))
       /\ (\A j \in 1..Len(trace) : trace[j].mat = None)
            => ReturnedValue = CallValue

\* a multi-type token replaced by a material whose type differs in case from
\* the label, with a material of another type in the catalog
C8_Witness ==
  /\ Resolving /\ pc = "done"
  /\ Len(trace) = 1
  /\ Len(trace[1].types) = 2
  /\ trace[1].mat = Some(Tin)
  /\ Oak \in Range(materials[1])
  /\ Iron \in Range(materials[1])
  /\ result[1][1] = Tin.name

(***************************************************************************)
(* C9: an optional token that the coin flip drops is replaced by empty     *)
(* text, no material is chosen for it and no modifier is applied; when the *)
(* only token of the name is dropped, the value is returned as it was and  *)
(* the returned name has no leading or trailing whitespace.                *)
(***************************************************************************)
C9_DroppedTokenLeavesNothing ==
  ResolverCalled
    => /\ \A j \in 1..Len(trace) :
            trace[j].dropped => (trace[j].optional /\ trace[j].mat = None)
       /\ (Len(trace) = 1 /\ trace[1].dropped)
            => /\ ReturnedValue = CallValue
               /\ IsTrimOf(ReturnedName,
                           SubSeq(CallName, 1, trace[1].start - 1)
                             \o SubSeq(CallName, trace[1].end + 1,
                                       Len(CallName)))

\* "R [W/o]" with a material of type W, dropped: "R"
C9_Witness ==
  /\ Resolving /\ pc = "done"
  /\ name = <<"R", " ", "[", "W", "/", "o", "]">>
  /\ Oak \in Range(materials[1])
  /\ value = 3
  /\ trace[1].dropped
  /\ result = Some(<< <<"R">>, 3 >>)

(***************************************************************************)
(* C10: the returned value is the value times the product of the modifiers *)
(* of the materials substituted into the name, one factor for each token   *)
(* that was replaced by a material, rounded to the nearest integer.        *)
(***************************************************************************)
C10_ValueIsRoundedProduct ==
  ResolverCalled
    => LET den == Pow(ModDen, Substituted(trace))
           exact == CallValue * ProductOf(trace)
       IN  /\ Abs(ReturnedValue * den - exact) * 2 <= den
           /\ \A j \in 1..Len(trace) :
                trace[j].mat # None
                  <=> (~trace[j].dropped /\ Matching(trace[j]) # {})

\* "[M] S", 10, [Iron 1.2] gives ("I S", 12)
C10_Witness ==
  /\ Resolving /\ pc = "done"
  /\ name = <<"[", "M", "]", " ", "S">>
  /\ value = 10
  /\ materials = Some(<< Iron >>)
  /\ result = Some(<< <<"I", " ", "S">>, 12 >>)

(***************************************************************************)
(* C11: generate_loot does not stop while a candidate fits: when it        *)
(* returns after the loop, the accumulated resolved cost has reached       *)
(* points, or no validated candidate has a base point_value within what is *)
(* left of the budget; and the candidate drawn in an iteration has a base  *)
(* point_value of at most the remaining budget of that iteration.          *)
(***************************************************************************)
C11_StopsOnlyWhenNothingFits ==
  Generating
    => /\ total_points = SumPoints(loot)
       /\ (pc = "done" /\ filtered_items # << >>)
            => \/ total_points >= points
               \/ \A c \in Range(filtered_items) :
                    c.point_value > points - total_points
       /\ drawn # None
            => /\ drawn[1] \in Range(filtered_items)
               /\ drawn[1].point_value <= remaining
               /\ remaining
                    = points - (total_points - loot[Len(loot)].point_value)

\* returned short of the budget after a draw: the candidates left cost more
\* than what remains
C11_Witness ==
  /\ Generating /\ pc = "done"
  /\ loot # << >>
  /\ total_points < points
  /\ filtered_items # << >>
  /\ drawn[1].point_value < remaining

=============================================================================
